---------------------------- MODULE Spec2Model ----------------------------
(***************************************************************************)
(* A model of GitCodeScraper (src/src/app/git_code_scraper.py): the        *)
(* constructor with its locator resolution and ignore-file loader, the     *)
(* per-file inclusion predicate, the local and the remote scrape, and the  *)
(* aggregation format.                                                     *)
(*                                                                         *)
(* Text is modelled as sequences of one-character strings, so that         *)
(* splitting, stripping, suffix extraction and joining are computed as the *)
(* code computes them.  A dict is modelled as a sequence of <<key, value>>  *)
(* pairs in insertion order.                                               *)
(***************************************************************************)
EXTENDS Naturals, Sequences, FiniteSets, TLC

(***************************************************************************)
(* Bounds of the model.                                                    *)
(***************************************************************************)
\* longest part of a remote reference after "scheme://h"
MaxUrlTail == 5
\* longest tree listing of a remote scrape
MaxTree == 3
\* most files a local walk yields
MaxFiles == 3
\* most lines of an ignore file
MaxLines == 3
\* most path segments of a candidate of the filter scenarios
MaxDepth == 3
\* most calls of scrape_repository on one scraper
MaxCalls == 2

(***************************************************************************)
(* Text helpers: str.startswith, str.split, str.strip, "sep".join.         *)
(***************************************************************************)
StartsWith(s, prefix) ==
    /\ Len(s) >= Len(prefix)
    /\ SubSeq(s, 1, Len(prefix)) = prefix

\* index of the first character of s in set cs at or after i, Len(s)+1 if none
RECURSIVE FindFrom(_, _, _)
FindFrom(s, cs, i) ==
    IF i > Len(s) THEN Len(s) + 1
    ELSE IF s[i] \in cs THEN i
    ELSE FindFrom(s, cs, i + 1)

\* s.split(sep) for a one-character sep: empty fields are kept
RECURSIVE SplitOn(_, _)
SplitOn(s, sep) ==
    LET i == FindFrom(s, {sep}, 1)
    IN  IF i > Len(s) THEN <<s>>
        ELSE <<SubSeq(s, 1, i - 1)>> \o SplitOn(SubSeq(s, i + 1, Len(s)), sep)

RECURSIVE LStrip(_, _)
LStrip(s, cs) ==
    IF s # <<>> /\ s[1] \in cs THEN LStrip(Tail(s), cs) ELSE s

RECURSIVE RStrip(_, _)
RStrip(s, cs) ==
    IF s # <<>> /\ s[Len(s)] \in cs THEN RStrip(SubSeq(s, 1, Len(s) - 1), cs) ELSE s

\* s.strip(cs)
StripChars(s, cs) == RStrip(LStrip(s, cs), cs)

\* the characters str.strip() without argument removes
Whitespace == {" ", "\t", "\n", "\r"}

\* sep.join(parts)
RECURSIVE JoinWith(_, _)
JoinWith(parts, sep) ==
    IF parts = <<>> THEN <<>>
    ELSE IF Len(parts) = 1 THEN parts[1]
    ELSE parts[1] \o sep \o JoinWith(Tail(parts), sep)

\* the elements of a sequence that are not in set S, order kept
RECURSIVE Drop(_, _)
Drop(seq, S) ==
    IF seq = <<>> THEN <<>>
    ELSE (IF seq[1] \in S THEN <<>> ELSE <<seq[1]>>) \o Drop(Tail(seq), S)

Range(seq) == {seq[i] : i \in DOMAIN seq}

\* index of the last "." of a name, 0 if none (str.rfind, 1-based)
RECURSIVE RFindDot(_, _)
RFindDot(name, i) ==
    IF i = 0 THEN 0
    ELSE IF name[i] = "." THEN i
    ELSE RFindDot(name, i - 1)

(***************************************************************************)
(* pathlib.PurePosixPath: a path is the sequence of its parts; an absolute *)
(* path has its root ("/", or "//" for exactly two leading slashes) as its *)
(* first part.  Empty and "." segments are dropped when a string is parsed.*)
(***************************************************************************)
SLASH == <<"/">>

PathRoot(s) ==
    IF StartsWith(s, <<"/", "/">>) /\ ~StartsWith(s, <<"/", "/", "/">>)
    THEN <<"/", "/">>
    ELSE IF StartsWith(s, SLASH) THEN SLASH
    ELSE <<>>

\* Path(s).parts
PathOf(s) ==
    LET segs == Drop(SplitOn(s, "/"), {<<>>, <<".">>})
    IN  IF PathRoot(s) = <<>> THEN segs ELSE <<PathRoot(s)>> \o segs

Anchored(p) == p # <<>> /\ p[1] \in {SLASH, <<"/", "/">>}

\* true when the path is only its anchor (or empty): name is "" and parent is self
OnlyAnchor(p) == Len(p) = (IF Anchored(p) THEN 1 ELSE 0)

\* Path.name
PathName(p) == IF OnlyAnchor(p) THEN <<>> ELSE p[Len(p)]

\* Path.parent
PathParent(p) == IF OnlyAnchor(p) THEN p ELSE SubSeq(p, 1, Len(p) - 1)

\* Path.suffix: from the last dot of the name, unless the dot is first or last
PathSuffix(p) ==
    LET name == PathName(p)
        j    == RFindDot(name, Len(name))
    IN  IF 1 < j /\ j < Len(name) THEN SubSeq(name, j, Len(name)) ELSE <<>>

(***************************************************************************)
(* os.path.join, os.path.normpath, os.path.relpath (posix).                *)
(***************************************************************************)
OsPathJoin(a, b) ==
    IF StartsWith(b, SLASH) THEN b
    ELSE IF a = <<>> \/ a[Len(a)] = "/" THEN a \o b
    ELSE a \o SLASH \o b

\* the components normpath keeps: "" and "." dropped, ".." pops a component
RECURSIVE NormComps(_, _)
NormComps(segs, acc) ==
    IF segs = <<>> THEN acc
    ELSE IF segs[1] \in {<<>>, <<".">>} THEN NormComps(Tail(segs), acc)
    ELSE IF segs[1] = <<".", ".">> /\ acc # <<>> /\ acc[Len(acc)] # <<".", ".">>
         THEN NormComps(Tail(segs), SubSeq(acc, 1, Len(acc) - 1))
    ELSE NormComps(Tail(segs), Append(acc, segs[1]))

RECURSIVE CommonPrefixLen(_, _)
CommonPrefixLen(a, b) ==
    IF a = <<>> \/ b = <<>> \/ a[1] # b[1] THEN 0
    ELSE 1 + CommonPrefixLen(Tail(a), Tail(b))

\* the path as walked, not made relative
OsPathRelpath_unchanged(path, start) == path

\* os.path.relpath(path, start), both seen from the same working directory
OsPathRelpath(path, start) ==
    LET start_list == NormComps(SplitOn(start, "/"), <<>>)
        path_list  == NormComps(SplitOn(path, "/"), <<>>)
        i          == CommonPrefixLen(start_list, path_list)
        rel_list   == [k \in 1..(Len(start_list) - i) |-> <<".", ".">>]
                      \o SubSeq(path_list, i + 1, Len(path_list))
    IN  IF rel_list = <<>> THEN <<".">> ELSE JoinWith(rel_list, SLASH)

(***************************************************************************)
(* Names and sets the code spells out.                                     *)
(***************************************************************************)
venv         == <<"v", "e", "n", "v">>
node_modules == <<"n", "o", "d", "e", "_", "m", "o", "d", "u", "l", "e", "s">>
dot_git      == <<".", "g", "i", "t">>
pycache      == <<"_", "_", "p", "y", "c", "a", "c", "h", "e", "_", "_">>

default_ignored_dirs == {venv, node_modules, dot_git, pycache}

ext_py   == <<".", "p", "y">>
ext_js   == <<".", "j", "s">>
ext_java == <<".", "j", "a", "v", "a">>
ext_cpp  == <<".", "c", "p", "p">>
ext_ts   == <<".", "t", "s">>
ext_jsx  == <<".", "j", "s", "x">>
ext_tsx  == <<".", "t", "s", "x">>

default_file_extensions == {ext_py, ext_js, ext_java, ext_cpp, ext_ts, ext_jsx, ext_tsx}

\* an Optional argument: None, or a value
None == [some |-> FALSE]
Some(v) == [some |-> TRUE, val |-> v]

(***************************************************************************)
(* Locator resolution (__init__): the scheme test and the split of the URL *)
(* path into owner and project.                                            *)
(***************************************************************************)
HTTP  == <<"h", "t", "t", "p", ":", "/", "/">>
HTTPS == <<"h", "t", "t", "p", "s", ":", "/", "/">>

IsRemoteRef(ref) == StartsWith(ref, HTTP) \/ StartsWith(ref, HTTPS)

\* urlparse(ref).path for an http(s) reference: what follows the network
\* location, up to the first "?" or "#" (no ";" parameters occur in the model)
UrlPath(ref) ==
    LET after  == SubSeq(ref, FindFrom(ref, {":"}, 1) + 3, Len(ref))
        rest   == SubSeq(after, FindFrom(after, {"/", "?", "#"}, 1), Len(after))
    IN  SubSeq(rest, 1, FindFrom(rest, {"?", "#"}, 1) - 1)

\* parsed.path.strip("/").split("/")
path_parts(ref) == SplitOn(StripChars(UrlPath(ref), {"/"}), "/")

\* the constructor raises ValueError for a remote reference
CtorRaises(ref) == IsRemoteRef(ref) /\ Len(path_parts(ref)) < 2

(***************************************************************************)
(* _load_ignore_file: the lines of the file, in order, with the current    *)
(* section; returns the two sets after the last line.                      *)
(***************************************************************************)
HDR_FILES == <<"[", "f", "i", "l", "e", "s", "]">>
HDR_DIRS  == <<"[", "d", "i", "r", "e", "c", "t", "o", "r", "i", "e", "s", "]">>

RECURSIVE load_lines(_, _, _, _)
load_lines(lines, section, files, dirs) ==
    IF lines = <<>> THEN [files |-> files, dirs |-> dirs]
    ELSE
      LET line == StripChars(lines[1], Whitespace)
          rest == Tail(lines)
      IN  IF line = <<>> \/ StartsWith(line, <<"#">>)
            THEN load_lines(rest, section, files, dirs)
          ELSE IF line = HDR_FILES THEN load_lines(rest, "files", files, dirs)
          ELSE IF line = HDR_DIRS THEN load_lines(rest, "directories", files, dirs)
          ELSE IF section = "files"
            THEN load_lines(rest, section, files \cup {line}, dirs)
          ELSE IF section = "directories"
            THEN load_lines(rest, section, files, dirs \cup {line})
          ELSE load_lines(rest, section, files, dirs)

\* a loader whose section starts as 'files'
load_ignore_file_files_first(file, files, dirs) ==
    IF file.outcome = "ok"
    THEN load_lines(file.lines, "files", files, dirs)
    ELSE [files |-> files, dirs |-> dirs]

\* a loader that empties both sets when the file cannot be read
load_ignore_file_reset_on_error(file, files, dirs) ==
    IF file.outcome = "ok"
    THEN load_lines(file.lines, "none", files, dirs)
    ELSE [files |-> {}, dirs |-> {}]

\* the whole loader: open() and readlines() come first, so a missing or
\* unreadable file leaves both sets as they were
load_ignore_file(file, files, dirs) ==
    IF file.outcome = "ok"
    THEN load_lines(file.lines, "none", files, dirs)
    ELSE [files |-> files, dirs |-> dirs]

(***************************************************************************)
(* _should_process_file.                                                   *)
(***************************************************************************)
\* Remote: some part of the path is an ignored directory name
remote_dir_check(path, dirs) ==
    IF \E i \in DOMAIN path : path[i] \in dirs THEN "ignored" ELSE "clear"

\* a walk that starts at the file's directory and never tests the file's own name
RECURSIVE local_dir_check_from_parent(_, _, _)
local_dir_check_from_parent(current_path, root, dirs) ==
    IF current_path = root \/ PathParent(current_path) = root THEN "clear"
    ELSE IF PathName(PathParent(current_path)) \in dirs THEN "ignored"
    ELSE IF PathParent(current_path) = current_path THEN "diverges"
    ELSE local_dir_check_from_parent(PathParent(current_path), root, dirs)

\* Local: the walk from the file up to the repository root.  It leaves the
\* loop at the root ("clear"), returns False at an ignored name ("ignored"),
\* and never ends when the parent of the current path is that path itself
\* and it is not the root ("diverges").
RECURSIVE local_dir_check(_, _, _)
local_dir_check(current_path, root, dirs) ==
    IF current_path = root THEN "clear"
    ELSE IF PathName(current_path) \in dirs THEN "ignored"
    ELSE IF PathParent(current_path) = current_path THEN "diverges"
    ELSE local_dir_check(PathParent(current_path), root, dirs)

dir_check(remote, root, file_path, dirs) ==
    IF remote THEN remote_dir_check(PathOf(file_path), dirs)
    ELSE local_dir_check(PathOf(file_path), PathOf(root), dirs)

\* a suffix test that lets a name without suffix through
name_and_suffix_check_lax(file_path, files, exts) ==
    /\ PathName(PathOf(file_path)) \notin files
    /\ PathSuffix(PathOf(file_path)) \in exts \cup {<<>>}

\* the checks after the directory walk
name_and_suffix_check(file_path, files, exts) ==
    /\ PathName(PathOf(file_path)) \notin files
    /\ PathSuffix(PathOf(file_path)) \in exts

\* the value _should_process_file returns, when it returns
should_process_file(remote, root, file_path, dirs, files, exts) ==
    /\ dir_check(remote, root, file_path, dirs) = "clear"
    /\ name_and_suffix_check(file_path, files, exts)

(***************************************************************************)
(* dict: insertion-ordered; assigning an existing key keeps its place.     *)
(***************************************************************************)
DictKeys(d) == {d[i][1] : i \in DOMAIN d}

DictGet(d, k) == d[CHOOSE i \in DOMAIN d : d[i][1] = k][2]

\* an assignment that moves an existing key to the end
DictSet_reinsert(d, k, v) ==
    SelectSeq(d, LAMBDA e : e[1] # k) \o << <<k, v>> >>

DictSet(d, k, v) ==
    IF k \in DictKeys(d)
    THEN [i \in DOMAIN d |-> IF d[i][1] = k THEN <<k, v>> ELSE d[i]]
    ELSE Append(d, <<k, v>>)

(***************************************************************************)
(* format_for_llm: four list items per file, joined by "\n".               *)
(***************************************************************************)
NL == <<"\n">>
\* the backquote character (a TLA+ string literal cannot hold it)
BQ == "bq"
FENCE == <<BQ, BQ, BQ>>
FILE_HEADER == <<"#", "#", "#", " ", "F", "i", "l", "e", ":", " ">>

\* a fence tag that keeps the suffix's dot
RECURSIVE formatted_content_dotted(_)
formatted_content_dotted(d) ==
    IF d = <<>> THEN <<>>
    ELSE << NL \o FILE_HEADER \o d[1][1],
            FENCE \o PathSuffix(PathOf(d[1][1])),
            d[1][2],
            FENCE >> \o formatted_content_dotted(Tail(d))

RECURSIVE formatted_content(_)
formatted_content(d) ==
    IF d = <<>> THEN <<>>
    ELSE LET file_path == d[1][1]
             content   == d[1][2]
             suffix    == PathSuffix(PathOf(file_path))
         IN  << NL \o FILE_HEADER \o file_path,
                FENCE \o SubSeq(suffix, 2, Len(suffix)),
                content,
                FENCE >> \o formatted_content(Tail(d))

format_for_llm(d) == JoinWith(formatted_content(d), NL)

\* the standalone script's copy (src/git-code-scraper.py): its closing fence
\* item is "```\n"
RECURSIVE formatted_content_script(_)
formatted_content_script(d) ==
    IF d = <<>> THEN <<>>
    ELSE LET suffix == PathSuffix(PathOf(d[1][1]))
         IN  << NL \o FILE_HEADER \o d[1][1],
                FENCE \o SubSeq(suffix, 2, Len(suffix)),
                d[1][2],
                FENCE \o NL >> \o formatted_content_script(Tail(d))

format_for_llm_script(d) == JoinWith(formatted_content_script(d), NL)

(***************************************************************************)
(* State.  args: the constructor's arguments (and the mapping a caller     *)
(* hands to format_for_llm); env: what the file system, git and the        *)
(* hosting API answer.  Both are fixed at the start.  The other variables  *)
(* are the scraper's fields, the locals of a running scrape, and what the  *)
(* scrape did (requests issued, files opened, connection attempts).        *)
(***************************************************************************)
VARIABLES args, env, pc, raised, calls,
          repo_path, ignored_dirs, ignored_files, file_extensions, repo,
          token, is_remote, remote_owner, remote_repo,
          code_contents, idx, requests, opened, connects, result, output,
          caller_dirs, other_dirs, answer

vars == << args, env, pc, raised, calls,
           repo_path, ignored_dirs, ignored_files, file_extensions, repo,
           token, is_remote, remote_owner, remote_repo,
           code_contents, idx, requests, opened, connects, result, output,
           caller_dirs, other_dirs, answer >>

\* what lives outside the scraper and its scrape: the set object the caller
\* passed as ignored_dirs (which the scraper may hold by reference), the
\* ignored_dirs of another scraper built from that same object, and the
\* value of a direct call of _should_process_file
outside == << caller_dirs, other_dirs, answer >>

fields == << repo_path, ignored_dirs, ignored_files, file_extensions,
             token, is_remote, remote_owner, remote_repo >>

\* Python truthiness of an Optional set argument, and of an Optional string
TruthySet(opt) == opt.some /\ opt.val # {}
TruthyStr(opt) == opt.some /\ opt.val # <<>>

(***************************************************************************)
(* __init__                                                                *)
(***************************************************************************)
\* self.ignored_dirs = ignored_dirs or self.default_ignored_dirs.copy()
initial_ignored_dirs(a) ==
    IF TruthySet(a.ignored_dirs) THEN a.ignored_dirs.val ELSE default_ignored_dirs

\* self.file_extensions = file_extensions or {...}
initial_file_extensions(a) ==
    IF TruthySet(a.file_extensions) THEN a.file_extensions.val ELSE default_file_extensions

\* the rule sets once the constructor has run the loader (if any)
constructed_rules(a, e) ==
    IF TruthyStr(a.ignore_file)
    THEN load_ignore_file(e.ignore_file, {}, initial_ignored_dirs(a))
    ELSE [files |-> {}, dirs |-> initial_ignored_dirs(a)]

\* main(): the file_extensions it hands to the constructor
main_file_extensions ==
    default_file_extensions
        \cup { <<".", "h", "p", "p">>, <<".", "h">> }

\* the constructor's arguments: the caller's, or the ones main() passes on
ctor_args(a) ==
    IF a.entry = "main"
    THEN [a EXCEPT !.file_extensions = Some(main_file_extensions)]
    ELSE a

\* `ignored_dirs or ...` yields the caller's own set object when it is
\* truthy: the scraper then holds that object, and the loader's add()
\* writes into it
holds_callers_set(dirs_arg) == TruthySet(dirs_arg)

\* GitCodeScraper(...), called by the caller or by main() (which goes on at
\* its line 45)
Construct ==
    /\ pc = "start"
    /\ repo_path' = args.repo_path
    /\ file_extensions' = initial_file_extensions(ctor_args(args))
    /\ token' = args.token
    /\ is_remote' = IsRemoteRef(args.repo_path)
    /\ IF CtorRaises(args.repo_path)
       THEN /\ pc' = "raised"
            /\ raised' = "ValueError"
            /\ ignored_dirs' = initial_ignored_dirs(args)
            /\ ignored_files' = {}
            /\ UNCHANGED << remote_owner, remote_repo, caller_dirs >>
       ELSE /\ pc' = IF args.entry = "main" THEN "main" ELSE "ready"
            /\ UNCHANGED raised
            /\ ignored_dirs' = constructed_rules(args, env).dirs
            /\ ignored_files' = constructed_rules(args, env).files
            /\ caller_dirs' = IF holds_callers_set(args.ignored_dirs)
                              THEN Some(constructed_rules(args, env).dirs)
                              ELSE caller_dirs
            /\ IF IsRemoteRef(args.repo_path)
               THEN /\ remote_owner' = path_parts(args.repo_path)[1]
                    /\ remote_repo' = path_parts(args.repo_path)[2]
               ELSE UNCHANGED << remote_owner, remote_repo >>
    /\ UNCHANGED << args, env, calls, repo, code_contents, idx, requests,
                    opened, connects, result, output, other_dirs, answer >>

\* main(), lines 45-46: scraper.ignored_files.update(ignored_files)
MainIgnoredFiles ==
    /\ pc = "main"
    /\ pc' = "ready"
    /\ ignored_files' = IF TruthySet(args.ignored_files)
                        THEN ignored_files \cup args.ignored_files.val
                        ELSE ignored_files
    /\ UNCHANGED << outside, args, env, raised, calls, repo_path, ignored_dirs,
                    file_extensions, repo, token, is_remote, remote_owner,
                    remote_repo, code_contents, idx, requests, opened, connects,
                    result, output >>

\* a second GitCodeScraper(...) that the caller builds from the same
\* ignored_dirs object, with an ignore file of its own.  When the object is
\* truthy both scrapers and the caller hold the one set.
ConstructOther ==
    /\ pc = "ready"
    /\ args.other_ignore_file.some
    /\ ~other_dirs.some
    /\ LET a     == [args EXCEPT !.ignored_dirs = caller_dirs,
                                 !.ignore_file = args.other_ignore_file]
           e     == [env EXCEPT !.ignore_file = env.other_file]
           rules == constructed_rules(a, e)
       IN  /\ other_dirs' = Some(rules.dirs)
           /\ IF holds_callers_set(caller_dirs)
              THEN /\ caller_dirs' = Some(rules.dirs)
                   /\ ignored_dirs' = rules.dirs
              ELSE UNCHANGED << caller_dirs, ignored_dirs >>
    /\ UNCHANGED << args, env, pc, raised, calls, repo_path, ignored_files,
                    file_extensions, repo, token, is_remote, remote_owner,
                    remote_repo, code_contents, idx, requests, opened, connects,
                    result, output, answer >>

\* a direct call of _should_process_file(p) on the constructed scraper
ShouldProcessFile ==
    /\ pc = "ready"
    /\ args.probe.some
    /\ IF dir_check(is_remote, repo_path, args.probe.val, ignored_dirs) = "diverges"
       THEN pc' = "hung" /\ UNCHANGED answer
       ELSE /\ pc' = "answered"
            /\ answer' = Some(should_process_file(is_remote, repo_path, args.probe.val,
                                                   ignored_dirs, ignored_files,
                                                   file_extensions))
    /\ UNCHANGED << args, env, raised, calls, fields, repo, code_contents, idx,
                    requests, opened, connects, result, output, caller_dirs,
                    other_dirs >>

(***************************************************************************)
(* scrape_remote_repository                                                *)
(***************************************************************************)
TOKEN_PREFIX == <<"t", "o", "k", "e", "n", " ">>

\* headers that carry whatever token was given, the empty one included
request_headers_when_given(tok) ==
    IF tok.some THEN {<<"Authorization", TOKEN_PREFIX \o tok.val>>} ELSE {}

\* headers = {}; if self.token: headers["Authorization"] = f"token {self.token}"
request_headers(tok) ==
    IF TruthyStr(tok) THEN {<<"Authorization", TOKEN_PREFIX \o tok.val>>} ELSE {}

\* the caller calls scrape_repository args.n_calls times
CanCall == pc = "ready" \/ (pc = "returned" /\ calls < args.n_calls)

\* a listing whose status is never looked at
listing_step_unchecked(outcome) ==
    CASE outcome = "transport_error" -> "raise_request"
      [] outcome = "bad_body"        -> "raise_json"
      [] outcome \in {"ok", "not_200"} -> "loop"

\* a blob whose status is never looked at
blob_step_unchecked(outcome) ==
    CASE outcome = "transport_error"              -> "raise_request"
      [] outcome = "bad_body"                     -> "raise_json"
      [] outcome = "base64_invalid"               -> "skip"
      [] outcome \in {"raw", "base64", "not_200"} -> "store"

\* what follows the listing request: requests.get raises on a transport
\* failure, a status other than 200 returns {}, response.json() raises on a
\* body that is no JSON, and otherwise the loop over the tree starts
listing_step(outcome) ==
    CASE outcome = "transport_error" -> "raise_request"
      [] outcome = "not_200"         -> "return_empty"
      [] outcome = "bad_body"        -> "raise_json"
      [] outcome = "ok"              -> "loop"

\* what follows a blob request: requests.get and file_resp.json() raise
\* uncaught, a status other than 200 and a base64 payload that does not
\* decode skip the item, and otherwise the text is stored
blob_step(outcome) ==
    CASE outcome = "transport_error"         -> "raise_request"
      [] outcome = "bad_body"                -> "raise_json"
      [] outcome = "not_200"                 -> "skip"
      [] outcome = "base64_invalid"          -> "skip"
      [] outcome \in {"raw", "base64"}       -> "store"

\* the listing request and what the code does with its response
ScrapeRemoteList ==
    /\ CanCall
    /\ is_remote
    /\ calls' = calls + 1
    /\ code_contents' = <<>>
    /\ opened' = <<>>
    /\ requests' = << [kind |-> "tree", owner |-> remote_owner, repo |-> remote_repo,
                       headers |-> request_headers(token)] >>
    /\ idx' = 1
    /\ CASE listing_step(env.listing.outcome) = "raise_request" ->
              pc' = "raised" /\ raised' = "RequestException" /\ UNCHANGED result
         [] listing_step(env.listing.outcome) = "return_empty" ->
              pc' = "returned" /\ result' = <<>> /\ UNCHANGED raised
         [] listing_step(env.listing.outcome) = "raise_json" ->
              pc' = "raised" /\ raised' = "JSONDecodeError" /\ UNCHANGED result
         [] listing_step(env.listing.outcome) = "loop" ->
              pc' = "tree" /\ UNCHANGED << raised, result >>
    /\ UNCHANGED << outside, args, env, fields, repo, connects, output >>

\* one iteration of `for item in tree`
ProcessTreeItem ==
    /\ pc = "tree"
    /\ idx <= Len(env.listing.tree)
    /\ LET item == env.listing.tree[idx]
       IN  IF item.type = "blob"
              /\ should_process_file(TRUE, repo_path, item.path, ignored_dirs,
                                     ignored_files, file_extensions)
           THEN /\ requests' = Append(requests, [kind |-> "blob", item |-> idx,
                                                 headers |-> request_headers(token)])
                /\ CASE blob_step(item.resp.outcome) = "raise_request" ->
                          /\ pc' = "raised" /\ raised' = "RequestException"
                          /\ UNCHANGED << code_contents, idx >>
                     [] blob_step(item.resp.outcome) = "raise_json" ->
                          /\ pc' = "raised" /\ raised' = "JSONDecodeError"
                          /\ UNCHANGED << code_contents, idx >>
                     [] blob_step(item.resp.outcome) = "skip" ->
                          /\ idx' = idx + 1
                          /\ UNCHANGED << pc, raised, code_contents >>
                     [] blob_step(item.resp.outcome) = "store" ->
                          /\ code_contents' = DictSet(code_contents, item.path, item.resp.text)
                          /\ idx' = idx + 1
                          /\ UNCHANGED << pc, raised >>
           ELSE /\ idx' = idx + 1
                /\ UNCHANGED << pc, raised, code_contents, requests >>
    /\ UNCHANGED << outside, args, env, calls, fields, repo, opened, connects, result, output >>

\* return code_contents
ReturnRemote ==
    /\ pc = "tree"
    /\ idx > Len(env.listing.tree)
    /\ pc' = "returned"
    /\ result' = code_contents
    /\ UNCHANGED << outside, args, env, raised, calls, fields, repo, code_contents, idx,
                    requests, opened, connects, output >>

(***************************************************************************)
(* connect_to_repo, get_file_content, scrape_repository (local)            *)
(***************************************************************************)
\* a connect that reports success unless the repository is invalid
connect_to_repo_unless_invalid(outcome) == outcome # "InvalidGitRepositoryError"

\* connect_to_repo(): git.Repo either returns a handle or raises; every
\* exception is caught
connect_to_repo(outcome) == outcome = "ok"

\* os.path.join(root, file) for a file the walk of `top` reaches
RECURSIVE walked_path(_, _)
walked_path(top, rel) ==
    IF rel = <<>> THEN top ELSE walked_path(OsPathJoin(top, rel[1]), Tail(rel))

\* get_file_content: the text, or "" when open() or read() raises
get_file_content(read) == IF read.ok THEN read.text ELSE <<>>

\* the start of scrape_repository on a local locator: connect unless connected
ScrapeLocalStart ==
    /\ CanCall
    /\ ~is_remote
    /\ calls' = calls + 1
    /\ code_contents' = <<>>
    /\ opened' = <<>>
    /\ requests' = <<>>
    /\ idx' = 1
    /\ IF repo = "None"
       THEN /\ connects' = connects + 1
            /\ IF connect_to_repo(env.git[calls + 1])
               THEN pc' = "walk" /\ repo' = "Repo" /\ UNCHANGED result
               ELSE pc' = "returned" /\ result' = <<>> /\ UNCHANGED repo
       ELSE /\ pc' = "walk"
            /\ UNCHANGED << repo, connects, result >>
    /\ UNCHANGED << outside, args, env, raised, fields, output >>

\* one iteration of the loops over os.walk
ProcessLocalFile ==
    /\ pc = "walk"
    /\ idx <= Len(env.walk)
    /\ LET file      == env.walk[idx]
           file_path == walked_path(repo_path, file.rel)
           walk      == dir_check(FALSE, repo_path, file_path, ignored_dirs)
       IN  IF walk = "diverges"
           THEN /\ pc' = "hung"
                /\ UNCHANGED << idx, code_contents, opened >>
           ELSE /\ pc' = pc
                /\ idx' = idx + 1
                /\ IF should_process_file(FALSE, repo_path, file_path, ignored_dirs,
                                          ignored_files, file_extensions)
                   THEN /\ opened' = Append(opened, file_path)
                        /\ code_contents' =
                             IF get_file_content(file.read) # <<>>
                             THEN DictSet(code_contents,
                                          OsPathRelpath(file_path, repo_path),
                                          get_file_content(file.read))
                             ELSE code_contents
                   ELSE UNCHANGED << code_contents, opened >>
    /\ UNCHANGED << outside, args, env, raised, calls, fields, repo, requests, connects,
                    result, output >>

ReturnLocal ==
    /\ pc = "walk"
    /\ idx > Len(env.walk)
    /\ pc' = "returned"
    /\ result' = code_contents
    /\ UNCHANGED << outside, args, env, raised, calls, fields, repo, code_contents, idx,
                    requests, opened, connects, output >>

(***************************************************************************)
(* format_for_llm, called on the scrape's result (as main does) or on a    *)
(* mapping of the caller's.                                                *)
(***************************************************************************)
format_input == IF args.format_arg.some THEN args.format_arg.val ELSE result

FormatForLlm ==
    /\ pc = "returned"
    /\ pc' = "formatted"
    /\ output' = format_for_llm(format_input)
    /\ UNCHANGED << outside, args, env, raised, calls, fields, repo, code_contents, idx,
                    requests, opened, connects, result >>

Next ==
    \/ Construct
    \/ MainIgnoredFiles
    \/ ConstructOther
    \/ ShouldProcessFile
    \/ ScrapeRemoteList
    \/ ProcessTreeItem
    \/ ReturnRemote
    \/ ScrapeLocalStart
    \/ ProcessLocalFile
    \/ ReturnLocal
    \/ FormatForLlm

(***************************************************************************)
(* The inputs.  Init is a union of scenarios, each wide in one input and   *)
(* plain in the others.                                                    *)
(***************************************************************************)
\* sequences over S of length lo..hi
SeqsOf(S, lo, hi) == UNION {[1..n -> S] : n \in lo..hi}

a_py   == <<"a", ".", "p", "y">>
b_py   == <<"b", ".", "p", "y">>
b_PY   == <<"b", ".", "P", "Y">>
c_txt  == <<"c", ".", "t", "x", "t">>
mk     == <<"m", "k">>
hidden == <<".", "p", "y">>
lib    == <<"l", "i", "b">>
x_eq_1 == <<"x", " ", "=", " ", "1">>

\* the text of the i-th listed blob or walked file
TextOf(i) == <<"c", ToString(i)>>

\* local repository paths: plain, with a trailing slash, dotted, absolute,
\* the working directory, one named like an ignored directory, and ""
LocalRoots == { <<"r">>, <<"r", "/">>, <<".", "/", "r">>, <<"/", "r">>, <<".">>, venv, <<>> }

PlainRemote == HTTPS \o <<"h", "/", "o", "/", "p">>

BaseArgs ==
    [ repo_path       |-> <<"r">>,
      ignored_dirs    |-> None,
      file_extensions |-> None,
      ignore_file     |-> None,
      token           |-> None,
      n_calls         |-> 1,
      format_arg      |-> None,
      entry           |-> "class",
      ignored_files   |-> None,
      other_ignore_file |-> None,
      probe           |-> None ]

BaseEnv ==
    [ ignore_file |-> [outcome |-> "FileNotFoundError", lines |-> <<>>],
      other_file  |-> [outcome |-> "FileNotFoundError", lines |-> <<>>],
      git         |-> [i \in 1..MaxCalls |-> "ok"],
      walk        |-> <<>>,
      listing     |-> [outcome |-> "not_200", tree |-> <<>>] ]

RawBlob(path, i) ==
    [type |-> "blob", path |-> path, resp |-> [outcome |-> "raw", text |-> TextOf(i)]]

ReadableFile(rel, i) == [rel |-> rel, read |-> [ok |-> TRUE, text |-> TextOf(i)]]

\* --- locator scenario: every reference "scheme://h" + tail, and local ones
UrlTails == SeqsOf({"/", "a", "b", "?"}, 0, MaxUrlTail)

InitLocator ==
    /\ \/ \E tail \in UrlTails :
             args = [BaseArgs EXCEPT !.repo_path = HTTPS \o <<"h">> \o tail]
       \/ \E tail \in SeqsOf({"/", "a", "b", "?"}, 0, MaxUrlTail - 2) :
             args = [BaseArgs EXCEPT !.repo_path = HTTP \o <<"h">> \o tail]
    /\ env = BaseEnv

\* --- ignore-file scenario
LinePool ==
    { HDR_FILES \o NL, <<" ", " ">> \o HDR_FILES, HDR_DIRS \o NL,
      a_py \o NL, <<" ">> \o lib \o <<" ">> \o NL, <<"#", " ", "x">> \o NL,
      NL, <<"[", "x", "]">> \o NL }


LoadedEnv(f) ==
    [BaseEnv EXCEPT !.ignore_file = f, !.walk = << ReadableFile(<<lib, a_py>>, 1) >>]

InitLoad ==
    \/ /\ \E dirs \in {None, Some({}), Some({mk})} :
             args = [BaseArgs EXCEPT !.ignore_file = Some(<<"i">>), !.ignored_dirs = dirs]
       /\ \E ls \in SeqsOf(LinePool, 0, MaxLines) :
             env = LoadedEnv([outcome |-> "ok", lines |-> ls])
    \/ /\ \E dirs \in {None, Some({}), Some({mk})} :
             args = [BaseArgs EXCEPT !.ignore_file = Some(<<"i">>), !.ignored_dirs = dirs]
       /\ \E o \in {"FileNotFoundError", "OSError", "UnicodeDecodeError"} :
             env = LoadedEnv([outcome |-> o, lines |-> <<>>])
    \/ /\ args = [BaseArgs EXCEPT !.ignore_file = Some(<<>>)]
       /\ env = LoadedEnv([outcome |-> "ok", lines |-> <<HDR_DIRS, lib>>])

\* --- filter scenario: one candidate, many paths and rule sets
FilterNames == {a_py, b_PY, hidden, lib, venv}
FilterPaths == SeqsOf(FilterNames, 1, MaxDepth)
FilterDirArgs == {None, Some({lib}), Some({a_py})}
FilterExtArgs == {None, Some({<<".", "P", "Y">>})}
FilterIgnoreFiles ==
    { [outcome |-> "ok", lines |-> <<>>],
      [outcome |-> "ok", lines |-> <<HDR_FILES, a_py, hidden>>] }

InitFilter ==
    /\ \E ref \in {<<"r">>, <<".">>, PlainRemote}, dirs \in FilterDirArgs,
          exts \in FilterExtArgs :
          args = [BaseArgs EXCEPT !.repo_path = ref, !.ignored_dirs = dirs,
                                  !.file_extensions = exts,
                                  !.ignore_file = Some(<<"i">>)]
    /\ \E f \in FilterIgnoreFiles, names \in FilterPaths :
          env = [BaseEnv EXCEPT !.ignore_file = f,
                                !.walk = << ReadableFile(names, 1) >>,
                                !.listing = [outcome |-> "ok",
                                             tree |-> << RawBlob(JoinWith(names, SLASH), 1) >>]]

\* --- remote scenario: listings of blobs and trees with every response
BlobOutcomes == {"raw", "base64", "base64_invalid", "not_200", "transport_error", "bad_body"}

EntryShapes ==
    { [type |-> "blob", path |-> a_py, outcome |-> o] : o \in BlobOutcomes }
    \cup { [type |-> "blob", path |-> lib \o SLASH \o b_py, outcome |-> o] :
             o \in {"raw", "not_200"} }
    \cup { [type |-> "blob", path |-> venv \o SLASH \o a_py, outcome |-> "raw"],
           [type |-> "tree", path |-> lib, outcome |-> "raw"] }

TreeOf(shapes) ==
    [i \in DOMAIN shapes |->
        [type |-> shapes[i].type, path |-> shapes[i].path,
         resp |-> [outcome |-> shapes[i].outcome, text |-> TextOf(i)]]]

\* a 200 listing; a failed one, whose body may still hold a tree
ListedOk(shapes) == [outcome |-> "ok", tree |-> TreeOf(shapes)]
ListedNot(o, shapes) == [outcome |-> o, tree |-> TreeOf(shapes)]
ListingFailures == {"not_200", "transport_error", "bad_body"}

InitRemote ==
    \/ /\ args = [BaseArgs EXCEPT !.repo_path = PlainRemote]
       /\ \/ \E sh \in SeqsOf(EntryShapes, 0, MaxTree) :
               env = [BaseEnv EXCEPT !.listing = ListedOk(sh)]
          \/ \E o \in ListingFailures, sh \in SeqsOf(EntryShapes, 0, 1) :
               env = [BaseEnv EXCEPT !.listing = ListedNot(o, sh)]
    \/ /\ \E tok \in {Some(<<>>), Some(<<"k">>)}, n \in 1..MaxCalls :
             args = [BaseArgs EXCEPT !.repo_path = PlainRemote, !.token = tok, !.n_calls = n]
       /\ \/ \E sh \in SeqsOf(EntryShapes, 0, 1) :
               env = [BaseEnv EXCEPT !.listing = ListedOk(sh)]
          \/ \E o \in ListingFailures :
               env = [BaseEnv EXCEPT !.listing = ListedNot(o, <<>>)]

\* --- local scenario: walks of distinct files with every read outcome
\* a file the filter rejects is never read: one outcome is enough for it
WalkShapes ==
    { [rel |-> r, read |-> o] : r \in {<<a_py>>, <<lib, b_py>>}, o \in {"text", "empty", "raises"} }
    \cup { [rel |-> r, read |-> "text"] : r \in {<<venv, a_py>>, <<c_txt>>, <<b_py>>} }

WalkOf(shapes) ==
    [i \in DOMAIN shapes |->
        [rel  |-> shapes[i].rel,
         read |-> [ok   |-> shapes[i].read # "raises",
                   text |-> IF shapes[i].read = "text" THEN TextOf(i) ELSE <<>>]]]

DistinctRels(w) == \A i, j \in DOMAIN w : i # j => w[i].rel # w[j].rel

GitOutcomes == {"ok", "InvalidGitRepositoryError", "Exception"}

\* os.walk("") yields nothing
InitLocal ==
    \/ /\ \E ref \in LocalRoots, sh \in SeqsOf(WalkShapes, 0, MaxFiles) :
             /\ DistinctRels(sh)
             /\ sh # <<>> => ref # <<>>
             /\ args = [BaseArgs EXCEPT !.repo_path = ref]
             /\ env = [BaseEnv EXCEPT !.walk = WalkOf(sh)]
    \/ /\ \E ref \in {<<"r">>, <<>>}, n \in 1..MaxCalls, sh \in SeqsOf(WalkShapes, 0, 1),
             g \in [1..MaxCalls -> GitOutcomes] :
             /\ sh # <<>> => ref # <<>>
             /\ args = [BaseArgs EXCEPT !.repo_path = ref, !.n_calls = n]
             /\ env = [BaseEnv EXCEPT !.git = g, !.walk = WalkOf(sh)]

\* --- format scenario: mappings a caller hands to format_for_llm
FormatKeys == { a_py, mk, hidden, lib \o SLASH \o c_txt }
FormatTexts == { x_eq_1, <<>>, <<"l", "\n", "m">> }

InitFormat ==
    /\ \E d \in SeqsOf(FormatKeys \X FormatTexts, 0, MaxFiles) :
          /\ \A i, j \in DOMAIN d : i # j => d[i][1] # d[j][1]
          /\ args = [BaseArgs EXCEPT !.format_arg = Some(d)]
    /\ env = BaseEnv

\* --- main scenario: main(repo_path, ignored_dirs=..., ignored_files=...)
x_h == <<"x", ".", "h">>

MainRels == { <<a_py>>, <<x_h>>, <<lib, b_py>>, <<venv, a_py>> }

MainDirArgs == { None, Some({lib}), Some({lib, venv}) }

MainFileArgs == { None, Some({}), Some({a_py}) }

InitMain ==
    /\ \E ref \in {<<"r">>, PlainRemote}, dirs \in MainDirArgs, files \in MainFileArgs :
          args = [BaseArgs EXCEPT !.entry = "main", !.repo_path = ref,
                                  !.ignored_dirs = dirs, !.ignored_files = files]
    /\ \E rels \in SeqsOf(MainRels, 0, MaxFiles - 1) :
          /\ \A i, j \in DOMAIN rels : i # j => rels[i] # rels[j]
          /\ env = [BaseEnv EXCEPT
                      !.walk = [i \in DOMAIN rels |-> ReadableFile(rels[i], i)],
                      !.listing = [outcome |-> "ok",
                                   tree |-> [i \in DOMAIN rels |->
                                               RawBlob(JoinWith(rels[i], SLASH), i)]]]

\* --- shared-set scenario: two scrapers built from one ignored_dirs object
SharedDirArgs == { None, Some({}), Some({mk}) }

SharedLines == { HDR_DIRS, HDR_FILES, venv, a_py }

InitShared ==
    /\ \E dirs \in SharedDirArgs, first \in {None, Some(<<"i">>)},
          second \in {Some(<<>>), Some(<<"j">>)} :
          args = [BaseArgs EXCEPT !.ignored_dirs = dirs, !.ignore_file = first,
                                  !.other_ignore_file = second]
    /\ \E ls \in {<<>>, <<HDR_DIRS, lib>>},
          f \in { [outcome |-> "ok", lines |-> l] : l \in SeqsOf(SharedLines, 0, MaxLines - 1) }
                 \cup { [outcome |-> "FileNotFoundError", lines |-> <<>>] } :
          env = [BaseEnv EXCEPT !.ignore_file = [outcome |-> "ok", lines |-> ls],
                                !.other_file = f,
                                !.walk = << ReadableFile(<<venv, a_py>>, 1) >>]

\* --- direct-call scenario: _should_process_file(p) for paths beneath the
\* root and elsewhere, relative and absolute
ProbeNames == { <<"r">>, a_py, lib, <<".">>, <<".", ".">> }

ProbePaths ==
    LET rels == { JoinWith(names, SLASH) : names \in SeqsOf(ProbeNames, 1, MaxDepth) }
    IN  rels \cup { SLASH \o p : p \in rels } \cup { <<>>, SLASH }

InitProbe ==
    /\ \E ref \in LocalRoots \cup {PlainRemote}, dirs \in {None, Some({<<>>}), Some({lib})},
          p \in ProbePaths :
          args = [BaseArgs EXCEPT !.repo_path = ref, !.ignored_dirs = dirs,
                                  !.probe = Some(p)]
    /\ env = BaseEnv

\* --- nested-entry scenario: [directories] entries of one or two segments
NestedEntries == { lib, mk, lib \o SLASH \o mk, mk \o SLASH \o lib }

InitNested ==
    /\ \E ref \in {<<"r">>, PlainRemote} :
          args = [BaseArgs EXCEPT !.repo_path = ref, !.ignore_file = Some(<<"i">>)]
    /\ \E entries \in SeqsOf(NestedEntries, 0, MaxLines - 1),
          above \in SeqsOf({lib, mk}, 0, MaxDepth - 1) :
          env = [BaseEnv EXCEPT
                   !.ignore_file = [outcome |-> "ok", lines |-> <<HDR_DIRS>> \o entries],
                   !.walk = << ReadableFile(above \o <<a_py>>, 1) >>,
                   !.listing = [outcome |-> "ok",
                                tree |-> << RawBlob(JoinWith(above \o <<a_py>>, SLASH), 1) >>]]

InitInputs ==
    \/ InitLocator \/ InitLoad \/ InitFilter \/ InitRemote \/ InitLocal \/ InitFormat
    \/ InitMain \/ InitShared \/ InitProbe \/ InitNested

Init ==
    /\ InitInputs
    /\ pc = "start"
    /\ raised = "none"
    /\ calls = 0
    /\ repo_path = <<>>
    /\ ignored_dirs = {}
    /\ ignored_files = {}
    /\ file_extensions = {}
    /\ repo = "None"
    /\ token = None
    /\ is_remote = FALSE
    /\ remote_owner = <<>>
    /\ remote_repo = <<>>
    /\ code_contents = <<>>
    /\ idx = 1
    /\ requests = <<>>
    /\ opened = <<>>
    /\ connects = 0
    /\ result = <<>>
    /\ output = <<>>
    /\ caller_dirs = args.ignored_dirs
    /\ other_dirs = None
    /\ answer = None

Spec == Init /\ [][Next]_vars

(***************************************************************************)
(* Vocabulary of the properties.                                           *)
(***************************************************************************)
\* the constructor has returned a scraper
Constructed == pc # "start" /\ raised # "ValueError"

\* a scrape has returned to its caller
Returned == pc \in {"returned", "formatted"}

\* the candidates of the scrape: the listed entries, or the walked files
Candidates == IF is_remote THEN DOMAIN env.listing.tree ELSE DOMAIN env.walk

\* the path _should_process_file is given for candidate i
CandidatePath(i) ==
    IF is_remote THEN env.listing.tree[i].path
    ELSE walked_path(repo_path, env.walk[i].rel)

\* the names between the repository root and candidate i, its own included
CheckedSegments(i) ==
    IF is_remote THEN Range(SplitOn(env.listing.tree[i].path, "/"))
    ELSE Range(env.walk[i].rel)

Basename(i) ==
    IF is_remote
    THEN LET segs == SplitOn(env.listing.tree[i].path, "/") IN segs[Len(segs)]
    ELSE env.walk[i].rel[Len(env.walk[i].rel)]

\* the name's text from its last dot on, "" when it has no dot
DottedTail(name) ==
    LET j == RFindDot(name, Len(name))
    IN  IF j = 0 THEN <<>> ELSE SubSeq(name, j, Len(name))

\* _should_process_file returns, and returns False
ReturnsFalse(file_path) ==
    /\ dir_check(is_remote, repo_path, file_path, ignored_dirs) # "diverges"
    /\ ~should_process_file(is_remote, repo_path, file_path, ignored_dirs,
                            ignored_files, file_extensions)

\* the scrape asked for the content of candidate i
Fetched(i) ==
    IF is_remote
    THEN \E k \in DOMAIN requests : requests[k].kind = "blob" /\ requests[k].item = i
    ELSE CandidatePath(i) \in Range(opened)

(***************************************************************************)
(* C1: a candidate with a checked segment name in ignoredDirNames (its own *)
(* name or an ancestor's below the root in Local mode, any segment of the  *)
(* listed path in Remote mode) is rejected by _should_process_file,        *)
(* whatever its file name and extension, and its content is never fetched. *)
(***************************************************************************)
C1_IgnoredSegmentExcludes ==
    Constructed =>
        \A i \in Candidates :
            CheckedSegments(i) \cap ignored_dirs # {} =>
                ReturnsFalse(CandidatePath(i)) /\ ~Fetched(i)

\* a local walk has passed a file that only an ancestor directory excludes
C1_Witness ==
    /\ pc = "returned" /\ ~is_remote /\ repo = "Repo"
    /\ \E i \in Candidates :
          /\ Len(env.walk[i].rel) > 1
          /\ Range(SubSeq(env.walk[i].rel, 1, Len(env.walk[i].rel) - 1)) \cap ignored_dirs # {}
          /\ Basename(i) \notin ignored_dirs
          /\ name_and_suffix_check(CandidatePath(i), ignored_files, file_extensions)

(***************************************************************************)
(* C2: a candidate whose suffix (from the last dot, case-sensitive) is not *)
(* in AllowedExtensions, or that has no extension, is rejected whatever    *)
(* the ignore sets hold; so is one whose basename is in ignoredFileNames,  *)
(* even with an allowed extension.  Neither is fetched.                    *)
(***************************************************************************)
C2_ExtensionAndFileNameExclude ==
    Constructed =>
        \A i \in Candidates :
            (DottedTail(Basename(i)) \notin file_extensions \/ Basename(i) \in ignored_files)
                => ReturnsFalse(CandidatePath(i)) /\ ~Fetched(i)

\* a remote scrape has passed an entry that no directory rule excludes and
\* whose extension is allowed, but whose basename is an ignored file name
C2_Witness ==
    /\ pc = "returned" /\ is_remote
    /\ \E i \in Candidates :
          /\ CheckedSegments(i) \cap ignored_dirs = {}
          /\ DottedTail(Basename(i)) \in file_extensions
          /\ Basename(i) \in ignored_files

(***************************************************************************)
(* C3: a reference starting with http:// or https:// constructs if and     *)
(* only if its URL path has at least two non-empty "/"-separated segments; *)
(* owner and project are then the first two of them, both non-empty.       *)
(***************************************************************************)
NonEmptySegments(ref) == Drop(SplitOn(UrlPath(ref), "/"), {<<>>})

C3_RemoteLocatorOwnerProject ==
    (pc # "start" /\ IsRemoteRef(args.repo_path)) =>
        LET segs == NonEmptySegments(args.repo_path)
        IN  /\ (raised # "ValueError") <=> (Len(segs) >= 2)
            /\ raised # "ValueError" =>
                  /\ remote_owner = segs[1] /\ remote_owner # <<>>
                  /\ remote_repo = segs[2] /\ remote_repo # <<>>

(***************************************************************************)
(* C4: when the listing request returns a non-success status, the remote   *)
(* scrape returns an empty result and issues no blob content request.      *)
(***************************************************************************)
C4_ListingFailureReturnsEmpty ==
    (is_remote /\ calls > 0 /\ env.listing.outcome = "not_200") =>
        /\ Returned
        /\ result = <<>>
        /\ \A k \in DOMAIN requests : requests[k].kind = "tree"

\* the failed listing's body held a blob the filter would have accepted
C4_Witness ==
    /\ is_remote /\ pc = "returned" /\ env.listing.outcome = "not_200"
    /\ \E i \in Candidates :
          /\ env.listing.tree[i].type = "blob"
          /\ should_process_file(TRUE, repo_path, CandidatePath(i), ignored_dirs,
                                 ignored_files, file_extensions)

(***************************************************************************)
(* C5 (as claimed): in a remote scrape whose listing succeeded and in      *)
(* which exactly one blob request returned a non-success status while the  *)
(* others were fetched successfully, the result contains every other       *)
(* accepted blob and does not contain the failing blob's path.             *)
(***************************************************************************)
Requested(i) ==
    /\ env.listing.tree[i].type = "blob"
    /\ should_process_file(TRUE, repo_path, env.listing.tree[i].path, ignored_dirs,
                           ignored_files, file_extensions)

FailedBlobs == {i \in DOMAIN env.listing.tree :
                   Requested(i) /\ env.listing.tree[i].resp.outcome = "not_200"}

FetchedBlobs == {i \in DOMAIN env.listing.tree :
                    Requested(i) /\ env.listing.tree[i].resp.outcome \in {"raw", "base64"}}

SingleBlobFailure ==
    /\ is_remote /\ calls > 0 /\ env.listing.outcome = "ok"
    /\ Cardinality(FailedBlobs) = 1
    /\ \A i \in DOMAIN env.listing.tree : Requested(i) => i \in FailedBlobs \cup FetchedBlobs

LastFetched(path) ==
    CHOOSE j \in FetchedBlobs :
        /\ env.listing.tree[j].path = path
        /\ \A k \in FetchedBlobs : env.listing.tree[k].path = path => k <= j

Trimmed(i) == StripChars(env.ignore_file.lines[i], Whitespace)

IsHeader(line) == line \in {HDR_FILES, HDR_DIRS}

IsEntry(line) == line # <<>> /\ line[1] # "#" /\ ~IsHeader(line)

\* the most recent header before line i, <<>> when there is none
HeaderBefore(i) ==
    LET hs == {j \in 1..(i - 1) : IsHeader(Trimmed(j))}
    IN  IF hs = {} THEN <<>>
        ELSE Trimmed(CHOOSE j \in hs : \A k \in hs : k <= j)

EntriesUnder(header) ==
    {Trimmed(i) : i \in {k \in DOMAIN env.ignore_file.lines :
                            IsEntry(Trimmed(k)) /\ HeaderBefore(k) = header}}

\* nothing has written the rule sets since the constructor returned: main()
\* has not added its file names, no other scraper shares the directory set
RulesAsConstructed ==
    /\ ~other_dirs.some
    /\ args.entry = "main" => pc = "main"

Loaded ==
    /\ Constructed /\ TruthyStr(args.ignore_file) /\ env.ignore_file.outcome = "ok"
    /\ RulesAsConstructed

C6_LoadedSectionsExactly ==
    Loaded =>
        /\ ignored_files = EntriesUnder(HDR_FILES)
        /\ ignored_dirs = initial_ignored_dirs(args) \cup EntriesUnder(HDR_DIRS)

\* a file with an entry before any header and a new entry under [directories]
C6_Witness ==
    /\ Loaded
    /\ EntriesUnder(<<>>) # {}
    /\ EntriesUnder(HDR_DIRS) \ initial_ignored_dirs(args) # {}
    /\ EntriesUnder(<<>>) \cap (ignored_files \cup ignored_dirs) = {}

(***************************************************************************)
(* C7 (as claimed): format_for_llm emits one block per pair, in order: the *)
(* line "### File: path", the opening fence with the suffix without its    *)
(* dot, the content, the closing fence; blocks are separated by a blank    *)
(* line and nothing else is emitted.                                       *)
(***************************************************************************)
ClaimBlock(pair) ==
    LET suffix == PathSuffix(PathOf(pair[1]))
    IN  FILE_HEADER \o pair[1] \o NL
        \o FENCE \o (IF suffix = <<>> THEN <<>> ELSE Tail(suffix)) \o NL
        \o pair[2] \o NL
        \o FENCE

RECURSIVE ClaimBlocks(_)
ClaimBlocks(d) ==
    IF d = <<>> THEN <<>>
    ELSE IF Len(d) = 1 THEN ClaimBlock(d[1])
    ELSE ClaimBlock(d[1]) \o NL \o NL \o ClaimBlocks(Tail(d))

C7_BlocksAndNothingElse ==
    pc = "formatted" => output = ClaimBlocks(format_input)

(***************************************************************************)
(* C7 (amended): ... and nothing else is emitted, except that the output   *)
(* for a non-empty mapping begins with one newline before the first        *)
(* block; the standalone script's copy also ends every block with one      *)
(* more newline, so its blocks are two blank lines apart.                  *)
(***************************************************************************)
RECURSIVE ScriptBlocks(_)
ScriptBlocks(d) ==
    IF d = <<>> THEN <<>>
    ELSE IF Len(d) = 1 THEN ClaimBlock(d[1]) \o NL
    ELSE ClaimBlock(d[1]) \o NL \o NL \o NL \o ScriptBlocks(Tail(d))

C7_BlocksAfterLeadingNewline ==
    pc = "formatted" =>
        /\ output = IF format_input = <<>> THEN <<>>
                    ELSE NL \o ClaimBlocks(format_input)
        /\ format_for_llm_script(format_input)
              = IF format_input = <<>> THEN <<>>
                ELSE NL \o ScriptBlocks(format_input)

\* two blocks or more, one of a path without extension
C7_Witness ==
    /\ pc = "formatted"
    /\ Len(format_input) >= 2
    /\ \E i \in DOMAIN format_input : PathSuffix(PathOf(format_input[i][1])) = <<>>
    /\ \E i \in DOMAIN format_input : PathSuffix(PathOf(format_input[i][1])) # <<>>

(***************************************************************************)
(* C8: a remote scrape never ends in an exception reaching the caller:     *)
(* every failure of the listing request yields an empty result, and every  *)
(* failure of a blob request omits that item only, the scrape returning    *)
(* the blobs fetched before and after it.                                  *)
(***************************************************************************)
C8_RemoteScrapeNeverRaises ==
    (is_remote /\ calls > 0) =>
        /\ pc # "raised"
        /\ (Returned /\ env.listing.outcome # "ok") => result = <<>>
        /\ (Returned /\ env.listing.outcome = "ok") =>
              DictKeys(result) = {env.listing.tree[j].path : j \in FetchedBlobs}

(***************************************************************************)
(* C9: on a Local locator connect_to_repo returns a boolean and never      *)
(* raises; as long as every attempt has returned false, each call of       *)
(* scrape_repository has tried the connection again, returned an empty     *)
(* result without walking or opening a file, and left the handle unset.    *)
(***************************************************************************)
AllAttemptsFailed == \A k \in 1..calls : env.git[k] # "ok"

C9_FailedConnectYieldsEmpty ==
    (Constructed /\ ~is_remote) =>
        /\ raised = "none"
        /\ \A k \in 1..calls : connect_to_repo(env.git[k]) \in BOOLEAN
        /\ AllAttemptsFailed =>
              /\ repo = "None"
              /\ connects = calls
              /\ pc # "walk"
              /\ opened = <<>>
              /\ code_contents = <<>>
              /\ result = <<>>

\* two calls, two failed attempts, over a directory that holds a file
C9_Witness ==
    /\ ~is_remote /\ pc = "returned"
    /\ calls = 2 /\ connects = 2 /\ repo = "None"
    /\ env.git[1] # env.git[2]
    /\ env.walk # <<>>

(***************************************************************************)
(* C10: the result of a local scrape that walked is exactly the files      *)
(* under the root that pass _should_process_file and whose read succeeds   *)
(* with non-empty text, each keyed by its path relative to the root; a     *)
(* read that throws and an empty read omit only that file.                 *)
(***************************************************************************)
IncludedFiles ==
    {i \in DOMAIN env.walk :
        /\ should_process_file(FALSE, repo_path, CandidatePath(i), ignored_dirs,
                               ignored_files, file_extensions)
        /\ env.walk[i].read.ok
        /\ env.walk[i].read.text # <<>>}

C10_LocalResultExactly ==
    (Constructed /\ ~is_remote /\ Returned /\ repo = "Repo") =>
        /\ Range(result) = {<<JoinWith(env.walk[i].rel, SLASH), env.walk[i].read.text>> :
                               i \in IncludedFiles}
        /\ Cardinality(DictKeys(result)) = Len(result)

\* a read that throws, then an empty read, then a file that is kept
C10_Witness ==
    /\ ~is_remote /\ pc = "returned" /\ repo = "Repo"
    /\ \E i, j, k \in DOMAIN env.walk :
          /\ i < j /\ j < k
          /\ CandidatePath(i) \in Range(opened) /\ ~env.walk[i].read.ok
          /\ CandidatePath(j) \in Range(opened) /\ env.walk[j].read.ok
          /\ env.walk[j].read.text = <<>>
          /\ k \in IncludedFiles
          /\ JoinWith(env.walk[k].rel, SLASH) \in DictKeys(result)

(***************************************************************************)
(* C11: constructed without a directory set, the scraper ignores every     *)
(* built-in default; constructed with one (the empty set included), it     *)
(* ignores the supplied names plus the loaded [directories] entries and no *)
(* built-in default beyond those; without an ignore file ignoredFileNames  *)
(* is empty.                                                               *)
(***************************************************************************)
LoadedDirEntries == IF Loaded THEN EntriesUnder(HDR_DIRS) ELSE {}

C11_DefaultsUnlessOverridden ==
    (Constructed /\ RulesAsConstructed) =>
        /\ ~args.ignored_dirs.some => default_ignored_dirs \subseteq ignored_dirs
        /\ args.ignored_dirs.some =>
              /\ ignored_dirs = args.ignored_dirs.val \cup LoadedDirEntries
              /\ (ignored_dirs \cap default_ignored_dirs)
                    \subseteq (args.ignored_dirs.val \cup LoadedDirEntries)
        /\ ~args.ignore_file.some => ignored_files = {}


(***************************************************************************)
(* C12: the directories handed to main() are additional to the built-in    *)
(* defaults: for every non-empty supplied set, the scraper main() builds   *)
(* ignores every supplied name and every built-in default.                 *)
(***************************************************************************)
C12_MainDirsAreAdditional ==
    (Constructed /\ args.entry = "main" /\ TruthySet(args.ignored_dirs)) =>
        /\ args.ignored_dirs.val \subseteq ignored_dirs
        /\ default_ignored_dirs \subseteq ignored_dirs
        /\ Returned =>
              \A i \in Candidates :
                 CheckedSegments(i) \cap (args.ignored_dirs.val \cup default_ignored_dirs) # {}
                    => ~Fetched(i)


(***************************************************************************)
(* C13: the result of a remote scrape is an ordered mapping without a      *)
(* repeated path, its keys in the listing order of the included entries    *)
(* (a path listed more than once keeps the place of its first fetched      *)
(* occurrence); a later occurrence overwrites an earlier one, so each path *)
(* holds the content of its last successfully fetched occurrence.          *)
(***************************************************************************)
FirstFetched(path) ==
    CHOOSE j \in FetchedBlobs :
        /\ env.listing.tree[j].path = path
        /\ \A k \in FetchedBlobs : env.listing.tree[k].path = path => j <= k

C13_RemoteResultOrdered ==
    (is_remote /\ Returned /\ env.listing.outcome = "ok") =>
        /\ \A i, j \in DOMAIN result : i # j => result[i][1] # result[j][1]
        /\ DictKeys(result) = {env.listing.tree[j].path : j \in FetchedBlobs}
        /\ \A i, j \in DOMAIN result :
              i < j => FirstFetched(result[i][1]) < FirstFetched(result[j][1])
        /\ \A i \in DOMAIN result :
              result[i][2] = env.listing.tree[LastFetched(result[i][1])].resp.text

\* a path fetched twice, another path first fetched between the two
C13_Witness ==
    /\ is_remote /\ pc = "returned" /\ env.listing.outcome = "ok"
    /\ Len(result) = 2
    /\ FirstFetched(result[1][1]) < FirstFetched(result[2][1])
    /\ FirstFetched(result[2][1]) < LastFetched(result[1][1])
    /\ result[1][2] # env.listing.tree[FirstFetched(result[1][1])].resp.text


(***************************************************************************)
(* C14: every request of a remote scrape, the listing request and each     *)
(* blob request, carries the header "Authorization: token {token}" if and  *)
(* only if the locator has an auth token (a non-empty one); without a      *)
(* token no request carries an Authorization header.                       *)
(***************************************************************************)
TokenPresent == token.some /\ token.val # <<>>

CarriesAuthorization(req) == \E h \in req.headers : h[1] = "Authorization"

C14_AuthorizationIffToken ==
    is_remote =>
        \A k \in DOMAIN requests :
           /\ CarriesAuthorization(requests[k]) <=> TokenPresent
           /\ TokenPresent =>
                 requests[k].headers
                    = {<<"Authorization", <<"t", "o", "k", "e", "n", " ">> \o token.val>>}

\* a scrape with a token that has listed and fetched a blob
C14_Witness ==
    /\ is_remote /\ pc = "returned" /\ TokenPresent
    /\ \E k \in DOMAIN requests : requests[k].kind = "tree"
    /\ \E k \in DOMAIN requests : requests[k].kind = "blob"


(***************************************************************************)
(* C15: loading an ignore file never fails construction: a missing file    *)
(* leaves ignoredFileNames and ignoredDirNames exactly as they were before *)
(* the load, any other read error still yields a constructed scraper, and  *)
(* every name ignored before the load is still ignored after it.           *)
(***************************************************************************)
LoadAttempted == pc # "start" /\ TruthyStr(args.ignore_file) /\ ~CtorRaises(args.repo_path)

C15_LoadNeverFailsConstruction ==
    LoadAttempted =>
        /\ Constructed
        /\ raised # "ValueError"
        /\ RulesAsConstructed =>
              /\ env.ignore_file.outcome = "FileNotFoundError" =>
                    /\ ignored_files = {}
                    /\ ignored_dirs = initial_ignored_dirs(args)
              /\ initial_ignored_dirs(args) \subseteq ignored_dirs

\* a file that exists but cannot be read, given with a directory set
C15_Witness ==
    /\ LoadAttempted /\ pc = "ready"
    /\ env.ignore_file.outcome \notin {"ok", "FileNotFoundError"}
    /\ args.ignored_dirs.some /\ args.ignored_dirs.val # {}
    /\ ignored_dirs = args.ignored_dirs.val


(***************************************************************************)
(* C16: a remote scrape issues one listing request and then, in listing    *)
(* order, exactly one content request for each listed blob that passes the *)
(* filter, and none for any other entry; entries without a request never   *)
(* appear in the result; with N matching entries it issues N+1 requests.   *)
(***************************************************************************)
\* the scrape is over: it returned, or an exception left it
ScrapeEnded == is_remote /\ calls > 0 /\ pc \in {"returned", "formatted", "raised"}

\* the entries the listing response lists: none when the listing failed
Listed == IF env.listing.outcome = "ok" THEN DOMAIN env.listing.tree ELSE {}

Matching == {i \in Listed : Requested(i)}

C16_OneRequestPerMatchingEntry ==
    ScrapeEnded =>
        /\ requests # <<>> /\ requests[1].kind = "tree"
        /\ \A k \in 2..Len(requests) :
              requests[k].kind = "blob" /\ requests[k].item \in Matching
        /\ \A k, l \in 2..Len(requests) : k < l => requests[k].item < requests[l].item
        /\ \A i \in Matching : \E k \in 2..Len(requests) : requests[k].item = i
        /\ Len(requests) = Cardinality(Matching) + 1
        /\ Returned =>
              DictKeys(result) \subseteq {env.listing.tree[i].path : i \in Matching}


(***************************************************************************)
(* C17: every entry loaded from the [directories] section, one of several  *)
(* segments such as dir2/subdir included, excludes every file located      *)
(* beneath that directory, in Local and in Remote mode.                    *)
(***************************************************************************)
\* the names from the repository root down to candidate i
RelativeSegments(i) ==
    IF is_remote THEN SplitOn(env.listing.tree[i].path, "/") ELSE env.walk[i].rel

\* candidate i lies beneath the directory that entry names (from the root)
Beneath(i, entry) ==
    LET dir == SplitOn(entry, "/")
        rel == RelativeSegments(i)
    IN  Len(dir) < Len(rel) /\ SubSeq(rel, 1, Len(dir)) = dir

C17_DirectoryEntriesExclude ==
    Loaded =>
        \A entry \in EntriesUnder(HDR_DIRS) :
           \A i \in Candidates :
              Beneath(i, entry) =>
                 /\ ReturnsFalse(CandidatePath(i))
                 /\ ~Fetched(i)


(***************************************************************************)
(* C18: in Local mode _should_process_file(p) terminates and returns a     *)
(* boolean for every path p and every repository root, a p that does not   *)
(* lie beneath the root included.                                          *)
(***************************************************************************)
C18_LocalFilterTerminates ==
    (Constructed /\ ~is_remote) =>
        /\ pc # "hung"
        /\ args.probe.some =>
              dir_check(FALSE, repo_path, args.probe.val, ignored_dirs) # "diverges"
        /\ pc = "answered" => (answer.some /\ answer.val \in BOOLEAN)


(***************************************************************************)
(* C19: constructing a scraper and loading an ignore file leave the        *)
(* caller's own ignored_dirs set unchanged: loaded [directories] names go  *)
(* to the scraper's rule set only, so two scrapers built from the same     *)
(* caller set do not see each other's loaded directory names.              *)
(***************************************************************************)
\* the directory rules of a scraper built from the caller's original set
\* and the given ignore file, on its own
BuiltAlone(ignore_file, file) ==
    constructed_rules([args EXCEPT !.ignore_file = ignore_file],
                      [env EXCEPT !.ignore_file = file]).dirs

C19_CallersSetUnchanged ==
    Constructed =>
        /\ caller_dirs = args.ignored_dirs
        /\ other_dirs.some =>
              /\ ignored_dirs = BuiltAlone(args.ignore_file, env.ignore_file)
              /\ other_dirs.val = BuiltAlone(args.other_ignore_file, env.other_file)


=============================================================================
